---- MODULE Spec2Model ----
(***************************************************************************)
(* The audio recorder page (AudioRecorder.tsx) and the upload route        *)
(* (upload-walrus/route.ts) as one state machine.  Each action is one      *)
(* run-to-completion step of the JavaScript event loop: a click handler up *)
(* to its first await, the continuation after an await, a recorder event,  *)
(* a timer.  React re-renders after every step, so the buttons' disabled   *)
(* attributes are read from the current state.                             *)
(***************************************************************************)
EXTENDS Naturals, Sequences, FiniteSets, TLC

VARIABLES
    isRecording,      \* useState(false)
    audioBlob,        \* useState<Blob | null>(null)
    uploading,        \* useState(false)
    uploadStatus,     \* useState<string>('')
    showToast,        \* useState(false)
    toastType,        \* useState<'success' | 'error'>('success')
    blobId,           \* useState<string | null>(null)
    mediaRecorderRef, \* useRef<MediaRecorder | null>(null): a recorder index, 0 for null
    audioChunksRef,   \* useRef<Blob[]>([]): the chunks, each named by its recorder
    recorders,        \* the streams getUserMedia delivered and their MediaRecorders
    started,          \* number of startRecording invocations so far
    gumPending,       \* startRecording invocations waiting for getUserMedia
    permPending,      \* MiniKit getPermissions promises not yet settled
    reqPending,       \* MiniKit requestPermission promises not yet settled
    unhandled,        \* a promise rejected, or a handler threw, with nothing catching it
    reqs,             \* the HTTP requests made to POST /api/upload-walrus
    fetches,          \* the requests whose fetch the page is still awaiting
    last              \* what the last step did: the operation and what it delivered

vars == <<isRecording, audioBlob, uploading, uploadStatus, showToast, toastType,
          blobId, mediaRecorderRef, audioChunksRef, recorders, started, gumPending,
          permPending, reqPending, unhandled, reqs, fetches, last>>

uiState == <<isRecording, audioBlob, uploading, uploadStatus, showToast, toastType,
             blobId>>
recState == <<mediaRecorderRef, audioChunksRef, recorders, started, gumPending>>
permState == <<permPending, reqPending>>
netState == <<reqs, fetches>>

----------------------------------------------------------------------------
(* Bounds of the model *)

MaxStarts == 2      \* clicks on Start Recording
MaxUploads == 2     \* requests sent by the page
MaxExternal == 2    \* requests sent to the route by other clients

----------------------------------------------------------------------------
(* Values *)

NoBlob == [by |-> 0, chunks |-> <<>>]      \* null
NullId == "null"                           \* null
Absent == "undefined"                      \* a field the JSON body does not have
BlobIds == {"blobA", "blobB"}              \* identifiers the storage network returns

NoRes == [kind |-> "none", ok |-> FALSE, json |-> FALSE, success |-> FALSE,
          blobId |-> Absent, error |-> Absent, message |-> ""]

Step(op, res) == [op |-> op, res |-> res]
\* A step that delivers no result of an asynchronous operation.
Other == Step("step", NoRes)

Ok == [NoRes EXCEPT !.kind = "ok"]
Fail(kind, msg) == [NoRes EXCEPT !.kind = kind, !.message = msg]

----------------------------------------------------------------------------
(* AudioRecorder: the initial state of the component *)

Init ==
    /\ isRecording = FALSE
    /\ audioBlob = NoBlob
    /\ uploading = FALSE
    /\ uploadStatus = ""
    /\ showToast = FALSE
    /\ toastType = "success"
    /\ blobId = NullId
    /\ mediaRecorderRef = 0
    /\ audioChunksRef = <<>>
    /\ recorders = <<>>
    /\ started = 0
    /\ gumPending = 0
    /\ permPending = 0
    /\ reqPending = 0
    /\ unhandled = FALSE
    /\ reqs = <<>>
    /\ fetches = {}
    /\ last = Other

----------------------------------------------------------------------------
(* AudioRecorder: the buttons *)

StartDisabled == isRecording \/ uploading
StopDisabled == ~isRecording \/ uploading
\* An Upload button whose disabled attribute leaves out uploading.
UploadDisabledNoRecordingOnly == audioBlob = NoBlob
UploadDisabled == audioBlob = NoBlob \/ uploading

----------------------------------------------------------------------------
(* AudioRecorder: microphone permission through MiniKit *)

\* requestMicrophonePermission: the call, up to its await.
requestMicrophonePermission == reqPending' = reqPending + 1

\* requestMicrophonePermission after its await: both branches only log.  A
\* rejection rejects the promise the caller dropped.
RequestPermissionSettles ==
    /\ reqPending > 0
    /\ reqPending' = reqPending - 1
    /\ \E out \in {"success", "error", "reject"} :
         /\ unhandled' = (unhandled \/ out = "reject")
         /\ last' = IF out = "success"
                      THEN Other
                      ELSE Step("requestPermission", Fail(out, "requestPermission"))
    /\ UNCHANGED <<uiState, recState, netState, permPending>>

\* checkRequestMicrophonePermission: the call, up to its await.
checkRequestMicrophonePermission == permPending' = permPending + 1

\* checkRequestMicrophonePermission after its await.
GetPermissionsSettles ==
    /\ permPending > 0
    /\ permPending' = permPending - 1
    /\ \E out \in {"granted", "notGranted", "error", "reject"} :
         /\ IF out = "notGranted"
              THEN requestMicrophonePermission
              ELSE UNCHANGED reqPending
         /\ unhandled' = (unhandled \/ out = "reject")
         /\ last' = IF out \in {"granted", "notGranted"}
                      THEN Other
                      ELSE Step("getPermissions", Fail(out, "getPermissions"))
    /\ UNCHANGED <<uiState, recState, netState>>

----------------------------------------------------------------------------
(* AudioRecorder: recording *)

MicrophoneError(msg) == "Failed to access microphone: " \o msg

Recorder(state) == [state |-> state, stopQueued |-> FALSE, live |-> TRUE]

\* startRecording: the click, up to the await of getUserMedia.
StartRecording ==
    /\ ~StartDisabled
    /\ started < MaxStarts
    /\ started' = started + 1
    /\ checkRequestMicrophonePermission
    /\ gumPending' = gumPending + 1
    /\ last' = Other
    /\ UNCHANGED <<uiState, mediaRecorderRef, audioChunksRef, recorders, reqPending,
                   unhandled, netState>>

\* startRecording: getUserMedia rejected, the catch block.
GetUserMediaRejects ==
    /\ gumPending > 0
    /\ gumPending' = gumPending - 1
    /\ uploadStatus' = MicrophoneError("Permission denied")
    /\ last' = Step("getUserMedia", Fail("reject", "Permission denied"))
    /\ UNCHANGED <<isRecording, audioBlob, uploading, showToast, toastType, blobId,
                   mediaRecorderRef, audioChunksRef, recorders, started, permState,
                   unhandled, netState>>

\* startRecording after getUserMedia resolved with a stream: the recorder is
\* built, the chunk list replaced, the handlers installed, the recorder started.
\* The constructor or start() may throw into the catch block.
GetUserMediaResolves ==
    /\ gumPending > 0
    /\ gumPending' = gumPending - 1
    /\ \E out \in {"ok", "ctorThrows", "startThrows"} :
         LET r == Len(recorders) + 1 IN
         /\ recorders' = Append(recorders,
                Recorder(CASE out = "ok" -> "recording"
                           [] out = "startThrows" -> "inactive"
                           [] OTHER -> "none"))
         /\ IF out = "ctorThrows"
              THEN UNCHANGED <<mediaRecorderRef, audioChunksRef>>
              ELSE mediaRecorderRef' = r /\ audioChunksRef' = <<>>
         /\ IF out = "ok"
              THEN /\ isRecording' = TRUE
                   /\ uploadStatus' = ""
                   /\ last' = Other
              ELSE /\ UNCHANGED isRecording
                   /\ uploadStatus' = MicrophoneError(out)
                   /\ last' = Step("MediaRecorder", Fail("throw", out))
    /\ UNCHANGED <<audioBlob, uploading, showToast, toastType, blobId, started,
                   permState, unhandled, netState>>

\* stopRecording: the click.  stop() on a recorder that is not recording does
\* nothing or throws InvalidStateError, depending on the browser; nothing
\* catches it.
StopRecording ==
    /\ ~StopDisabled
    /\ IF mediaRecorderRef = 0
         THEN /\ UNCHANGED <<isRecording, recorders, unhandled>>
              /\ last' = Other
         ELSE IF recorders[mediaRecorderRef].state = "recording"
         THEN /\ recorders' = [recorders EXCEPT ![mediaRecorderRef] =
                                 [@ EXCEPT !.state = "inactive", !.stopQueued = TRUE]]
              /\ isRecording' = FALSE
              /\ UNCHANGED unhandled
              /\ last' = Other
         ELSE \E threw \in BOOLEAN :
              /\ isRecording' = (isRecording /\ threw)
              /\ unhandled' = (unhandled \/ threw)
              /\ UNCHANGED recorders
              /\ last' = IF threw
                           THEN Step("stop", Fail("throw", "InvalidStateError"))
                           ELSE Other
    /\ UNCHANGED <<audioBlob, uploading, uploadStatus, showToast, toastType, blobId,
                   mediaRecorderRef, audioChunksRef, started, gumPending, permState,
                   netState>>

\* The recorder's events after stop(): ondataavailable pushes the recorded data
\* onto the current chunk list, onstop builds the blob from that list and stops
\* the stream's tracks.
RecorderStops(r) ==
    /\ recorders[r].stopQueued
    /\ audioChunksRef' = Append(audioChunksRef, r)
    /\ audioBlob' = [by |-> r, chunks |-> audioChunksRef']
    /\ recorders' = [recorders EXCEPT ![r] = [@ EXCEPT !.stopQueued = FALSE,
                                                       !.live = FALSE]]
    /\ last' = Other
    /\ UNCHANGED <<isRecording, uploading, uploadStatus, showToast, toastType, blobId,
                   mediaRecorderRef, started, gumPending, permState, unhandled,
                   netState>>

----------------------------------------------------------------------------
(* route.ts: POST /api/upload-walrus *)

NoResp == [status |-> 0, success |-> FALSE, blobId |-> Absent, error |-> Absent]

\* A request as the route sees it.  form.kind is what the body holds:
\* "unparsable" (not multipart), "noAudio" (no audio field), "text" (the audio
\* field is a string, not a file) or "file" (the audio field is a file of bytes).
\* success = FALSE in a response stands for a body without a success field.
Request(origin, form) ==
    [origin |-> origin, form |-> form, pc |-> "formData", bodyRead |-> FALSE,
     clientBuilt |-> FALSE, writeCalls |-> 0, wrote |-> "none", thrown |-> Absent,
     answers |-> 0, resp |-> NoResp]

\* A request of the page that the route has answered and whose fetch the page no
\* longer awaits: nothing refers to it any more.
Finished ==
    [Request("page", [kind |-> "file", bytes |-> NoBlob]) EXCEPT !.pc = "finished"]

Settled(i, req) ==
    IF req.origin = "page" /\ req.pc = "responded" /\ i \notin fetches
      THEN Finished ELSE req

PageRequests == {i \in DOMAIN reqs : reqs[i].origin = "page"}
ExternalRequests == {i \in DOMAIN reqs : reqs[i].origin = "external"}

ExternalForms ==
    {[kind |-> "unparsable", bytes |-> NoBlob],
     [kind |-> "noAudio", bytes |-> NoBlob],
     [kind |-> "text", bytes |-> NoBlob],
     [kind |-> "file", bytes |-> [by |-> 0, chunks |-> <<0>>]]}

\* Another client of the route sends a request.
ExternalRequest ==
    /\ Cardinality(ExternalRequests) < MaxExternal
    /\ \E form \in ExternalForms : reqs' = Append(reqs, Request("external", form))
    /\ last' = Other
    /\ UNCHANGED <<uiState, recState, permState, unhandled, fetches>>

\* NextResponse.json(body, {status}): the handler returns its answer.
Respond(req, resp) ==
    [req EXCEPT !.pc = "responded", !.answers = @ + 1, !.resp = resp]

RouteError(msg) == "Failed to upload to Walrus: " \o msg

\* An exception with this message is thrown inside the try block.
Throw(req, msg) == [req EXCEPT !.thrown = msg]

\* A catch block that answers without the exception's message.
CatchGeneric(req) ==
    Respond(req, [status |-> 500, success |-> FALSE, blobId |-> Absent,
                  error |-> "Failed to upload to Walrus"])

\* The catch block of POST.
Catch(req) ==
    Respond(req, [status |-> 500, success |-> FALSE, blobId |-> Absent,
                  error |-> RouteError(req.thrown)])

\* The answer to a request without an audio field.
NoAudioResponse ==
    [status |-> 400, success |-> FALSE, blobId |-> Absent,
     error |-> "No audio blob provided"]

\* An answer whose blobId is read from a field writeBlob's result does not have:
\* JSON drops the undefined value.
SuccessResponseUndefinedId(id) ==
    [status |-> 200, success |-> TRUE, blobId |-> Absent, error |-> Absent]

\* The answer after writeBlob returned id.
SuccessResponse(id) ==
    [status |-> 200, success |-> TRUE, blobId |-> id, error |-> Absent]

\* POST up to the await of arrayBuffer(): the form is parsed, the audio field
\* looked up.  A string in the audio field has no arrayBuffer method.
\* The same without the check of the audio field: arrayBuffer is then called
\* on null.
AfterFormDataUnchecked(req) ==
    CASE req.form.kind = "unparsable" ->
           Catch(Throw(req, "Failed to parse body as FormData"))
      [] req.form.kind = "noAudio" ->
           Catch(Throw([req EXCEPT !.bodyRead = TRUE],
                       "Cannot read properties of null"))
      [] req.form.kind = "text" ->
           Catch(Throw([req EXCEPT !.bodyRead = TRUE],
                       "audioBlob.arrayBuffer is not a function"))
      [] OTHER ->
           [req EXCEPT !.bodyRead = TRUE, !.pc = "arrayBuffer"]

AfterFormData(req) ==
    CASE req.form.kind = "unparsable" ->
           Catch(Throw(req, "Failed to parse body as FormData"))
      [] req.form.kind = "noAudio" ->
           Respond([req EXCEPT !.bodyRead = TRUE], NoAudioResponse)
      [] req.form.kind = "text" ->
           Catch(Throw([req EXCEPT !.bodyRead = TRUE],
                       "audioBlob.arrayBuffer is not a function"))
      [] OTHER ->
           [req EXCEPT !.bodyRead = TRUE, !.pc = "arrayBuffer"]

PostFormData(i) ==
    /\ reqs[i].pc = "formData"
    /\ reqs' = [reqs EXCEPT ![i] = Settled(i, AfterFormData(@))]
    /\ last' = Other
    /\ UNCHANGED <<uiState, recState, permState, unhandled, fetches>>

\* The call of suiClient.walrus.writeBlob.
CallWriteBlob(req) ==
    [req EXCEPT !.clientBuilt = TRUE, !.writeCalls = @ + 1, !.pc = "writeBlob"]

\* POST after arrayBuffer(): the bytes are copied, the client and the keypair
\* are built, writeBlob is called.
PostArrayBuffer(i) ==
    /\ reqs[i].pc = "arrayBuffer"
    /\ \E out \in {"ok", "arrayBufferThrows", "setupThrows"} :
         reqs' = [reqs EXCEPT ![i] = Settled(i,
            CASE out = "arrayBufferThrows" -> Catch(Throw(@, "arrayBuffer failed"))
              [] out = "setupThrows" -> Catch(Throw(@, "Invalid secret key"))
              [] OTHER -> CallWriteBlob(@))]
    /\ last' = Other
    /\ UNCHANGED <<uiState, recState, permState, unhandled, fetches>>

\* POST after writeBlob: the identifier is returned, or the error caught.
PostWriteBlob(i) ==
    /\ reqs[i].pc = "writeBlob"
    /\ \/ \E id \in BlobIds :
            reqs' = [reqs EXCEPT ![i] = Settled(i,
                       Respond([@ EXCEPT !.wrote = "ok"], SuccessResponse(id)))]
       \/ reqs' = [reqs EXCEPT ![i] = Settled(i,
                       Catch(Throw([@ EXCEPT !.wrote = "threw"],
                                   "Failed to write blob")))]
    /\ last' = Other
    /\ UNCHANGED <<uiState, recState, permState, unhandled, fetches>>

----------------------------------------------------------------------------
(* AudioRecorder: upload *)

UploadSuccessStatus(id) == "Upload successful! Blob ID: " \o id
UploadFailedStatus(error) ==
    "Upload failed: " \o (IF error \in {Absent, ""} THEN "Unknown error" ELSE error)
UploadErrorStatus(message) == "Error uploading to Walrus: " \o message

\* A body built from the current chunk list instead of the blob in state.
FormBodyFromChunks == [by |-> mediaRecorderRef, chunks |-> audioChunksRef]

\* formData.append('audio', audioBlob, ...): the blob of the render the handler
\* belongs to.
FormBody == audioBlob

\* handleUpload without the return of its first branch: the request is sent
\* although there is no recording.
handleUploadNoReturn ==
    /\ uploading' = TRUE
    /\ uploadStatus' = "Uploading to Walrus..."
    /\ showToast' = FALSE
    /\ blobId' = NullId
    /\ reqs' = Append(reqs, Request("page", [kind |-> "file", bytes |-> FormBody]))
    /\ fetches' = fetches \cup {Len(reqs) + 1}

\* handleUpload: the call, up to the await of fetch.
handleUpload ==
    IF audioBlob = NoBlob
      THEN /\ uploadStatus' = "No recording to upload."
           /\ UNCHANGED <<uploading, showToast, blobId, reqs, fetches>>
      ELSE /\ uploading' = TRUE
           /\ uploadStatus' = "Uploading to Walrus..."
           /\ showToast' = FALSE
           /\ blobId' = NullId
           /\ reqs' = Append(reqs, Request("page", [kind |-> "file", bytes |-> FormBody]))
           /\ fetches' = fetches \cup {Len(reqs) + 1}

\* The click on Upload to Walrus.
HandleUpload ==
    /\ ~UploadDisabled
    /\ Cardinality(PageRequests) < MaxUploads
    /\ handleUpload
    /\ last' = Step("handleUpload", NoRes)
    /\ UNCHANGED <<isRecording, audioBlob, toastType, recState, permState, unhandled>>

\* handleUpload called while there is no recording: the button is disabled
\* then, so this is a call that does not come from a click on it (a test, a
\* synthetic event, another caller of the handler).
HandleUploadCall ==
    /\ audioBlob = NoBlob
    /\ handleUpload
    /\ last' = Step("handleUpload", NoRes)
    /\ UNCHANGED <<isRecording, audioBlob, toastType, recState, permState, unhandled>>

\* What the page receives for a request: the route's answer once it has
\* answered, an answer made on the way (a gateway error page, a JSON body of
\* another shape), or a rejection of fetch.
RouteAnswer(resp) ==
    [kind |-> "response", ok |-> (resp.status \in 200..299), json |-> TRUE,
     success |-> resp.success, blobId |-> resp.blobId, error |-> resp.error,
     message |-> ""]

OtherAnswers ==
    {[kind |-> "reject", ok |-> FALSE, json |-> FALSE, success |-> FALSE,
      blobId |-> Absent, error |-> Absent, message |-> "Failed to fetch"],
     [kind |-> "response", ok |-> FALSE, json |-> FALSE, success |-> FALSE,
      blobId |-> Absent, error |-> Absent, message |-> "Unexpected token <"],
     [kind |-> "response", ok |-> TRUE, json |-> TRUE, success |-> FALSE,
      blobId |-> Absent, error |-> Absent, message |-> ""]}

Answers(i) ==
    OtherAnswers \cup
    (IF reqs[i].pc = "responded" THEN {RouteAnswer(reqs[i].resp)} ELSE {})

\* fetch or response.json() threw: the catch block.
UploadThrew(res) == res.kind = "reject" \/ ~res.json

\* response.ok && result.success
UploadSucceeded(res) == ~UploadThrew(res) /\ res.ok /\ res.success

\* The identifier of the blobId state of the render instead of the response's.
StaleBlobId(res) == blobId

\* The identifier the success branch shows and stores.
ResultBlobId(res) == res.blobId

StatusAfterUpload(res) ==
    IF UploadThrew(res) THEN UploadErrorStatus(res.message)
    ELSE IF UploadSucceeded(res) THEN UploadSuccessStatus(ResultBlobId(res))
    ELSE UploadFailedStatus(res.error)

BlobIdAfterUpload(res) == IF UploadSucceeded(res) THEN ResultBlobId(res) ELSE blobId

\* setAudioBlob(null) on every outcome, as in a finally block.
AudioBlobCleared(res) == NoBlob

\* setAudioBlob(null) in the success branch only.
AudioBlobAfterUpload(res) == IF UploadSucceeded(res) THEN NoBlob ELSE audioBlob

\* A toast whose type is never set to 'error'.
ToastTypeAlwaysSuccess(res) == "success"

ToastTypeAfterUpload(res) == IF UploadSucceeded(res) THEN "success" ELSE "error"

\* setUploading(false) at the end of the success branch instead of in finally.
UploadingResetOnSuccessOnly(res) == uploading /\ ~UploadSucceeded(res)

\* finally { setUploading(false) }
UploadingAfterUpload(res) == FALSE

\* handleUpload after its awaits (fetch, then response.json(); nothing is done
\* between the two), with its finally block.
UploadSettles(i) ==
    /\ i \in fetches
    /\ fetches' = fetches \ {i}
    /\ reqs' = [reqs EXCEPT ![i] = IF @.pc = "responded" THEN Finished ELSE @]
    /\ \E res \in Answers(i) :
         /\ uploadStatus' = StatusAfterUpload(res)
         /\ blobId' = BlobIdAfterUpload(res)
         /\ toastType' = ToastTypeAfterUpload(res)
         /\ audioBlob' = AudioBlobAfterUpload(res)
         /\ uploading' = UploadingAfterUpload(res)
         /\ last' = Step("upload", res)
    /\ showToast' = TRUE
    /\ UNCHANGED <<isRecording, recState, permState, unhandled>>

\* The timer set while the toast is shown: setShowToast(false).
ToastTimer ==
    /\ showToast
    /\ showToast' = FALSE
    /\ last' = Other
    /\ UNCHANGED <<isRecording, audioBlob, uploading, uploadStatus, toastType, blobId,
                   recState, permState, unhandled, netState>>

----------------------------------------------------------------------------

\* The page and the route serving it, without the settling of the MiniKit
\* promises (which touches permPending, reqPending and unhandled only).
Next ==
    \/ StartRecording
    \/ GetUserMediaRejects
    \/ GetUserMediaResolves
    \/ StopRecording
    \/ \E r \in DOMAIN recorders : RecorderStops(r)
    \/ HandleUpload
    \/ \E i \in fetches : UploadSettles(i)
    \/ ToastTimer
    \/ \E i \in DOMAIN reqs : PostFormData(i)
    \/ \E i \in DOMAIN reqs : PostArrayBuffer(i)
    \/ \E i \in DOMAIN reqs : PostWriteBlob(i)

Spec == Init /\ [][Next]_vars

\* The page with the MiniKit promises settling, and the route serving it.
NextPage ==
    \/ Next
    \/ GetPermissionsSettles
    \/ RequestPermissionSettles

SpecPage == Init /\ [][NextPage]_vars

\* The page with handleUpload also called when there is no recording.
NextCalls ==
    \/ Next
    \/ HandleUploadCall

SpecCalls == Init /\ [][NextCalls]_vars

\* The page when every request it awaits is eventually settled (the fetch
\* resolves or rejects and the event loop runs the continuation).
SpecLive == Init /\ [][Next]_vars /\ WF_vars(\E i \in fetches : UploadSettles(i))

\* The route alone, serving the requests of other clients.
NextRoute ==
    \/ ExternalRequest
    \/ \E i \in DOMAIN reqs : PostFormData(i)
    \/ \E i \in DOMAIN reqs : PostArrayBuffer(i)
    \/ \E i \in DOMAIN reqs : PostWriteBlob(i)

SpecRoute == Init /\ [][NextRoute]_vars

----------------------------------------------------------------------------
(* The page's contract *)

\* C2: when an upload settles with an ok status and success: true, uploadStatus
\* becomes 'Upload successful! Blob ID: <id>' and blobId becomes <id>, the
\* identifier of the answer to that very request.
C2_SuccessShowsReturnedId ==
    [][\A i \in fetches :
         (/\ i \notin fetches'
          /\ last'.op = "upload"
          /\ last'.res.kind = "response" /\ last'.res.json
          /\ last'.res.ok /\ last'.res.success)
         => /\ reqs[i].pc = "responded"
            /\ last'.res.blobId = reqs[i].resp.blobId
            /\ uploadStatus' = "Upload successful! Blob ID: " \o reqs[i].resp.blobId
            /\ blobId' = reqs[i].resp.blobId]_vars

\* The second upload of the page has just succeeded and its identifier is shown.
C2_Witness ==
    /\ last.op = "upload" /\ last.res.ok /\ last.res.success
    /\ Cardinality(PageRequests) = 2
    /\ blobId = "blobB"
    /\ uploadStatus = "Upload successful! Blob ID: blobB"

\* C3: when an upload fails (fetch rejects, the body is not JSON, the status is
\* not ok, success is not true), uploadStatus becomes the error message of that
\* failure, blobId stays null, and the step keeps the recorded blob, so that the
\* Upload button is enabled again.
C3_FailureKeepsRecording ==
    [][\A i \in fetches :
         (/\ i \notin fetches'
          /\ last'.op = "upload"
          /\ ~(/\ last'.res.kind = "response" /\ last'.res.json
               /\ last'.res.ok /\ last'.res.success))
         => /\ uploadStatus' # ""
            /\ uploadStatus' =
                 IF last'.res.kind = "reject" \/ ~last'.res.json
                   THEN "Error uploading to Walrus: " \o last'.res.message
                   ELSE "Upload failed: " \o
                          (IF last'.res.error \in {Absent, ""}
                             THEN "Unknown error" ELSE last'.res.error)
            /\ blobId' = NullId
            /\ audioBlob' = audioBlob
            /\ audioBlob' # NoBlob
            /\ ~uploading']_vars

\* The route answered 500 after writeBlob threw, and the page shows it while
\* the recording is still there.
C3_Witness ==
    /\ last.op = "upload" /\ last.res.kind = "response" /\ ~last.res.ok
    /\ uploadStatus = "Upload failed: Failed to upload to Walrus: Failed to write blob"
    /\ audioBlob # NoBlob
    /\ ~uploading
    /\ blobId = NullId

\* C4: every failure of an asynchronous operation a user action started (the
\* permission check, the permission request, getUserMedia, the recorder's
\* start and stop, the upload) ends as an error message in uploadStatus, and
\* none is left unhandled.
C4_FailuresSurfaced ==
    /\ ~unhandled
    /\ (\/ last.op \in {"getPermissions", "requestPermission", "getUserMedia",
                        "MediaRecorder", "stop"}
        \/ last.op = "upload" /\ ~UploadSucceeded(last.res))
       => uploadStatus \notin
            {"", "Uploading to Walrus...", "No recording to upload."}
            \cup {"Upload successful! Blob ID: " \o id : id \in BlobIds}

\* C5: isRecording and uploading are never both true.
C5_OneOfThreeStates == ~(isRecording /\ uploading)

\* C6: after one click on Start Recording the permission check and
\* getUserMedia are never pending together, and the page never awaits more
\* than one fetch.
C6_OneOperationInFlight ==
    /\ started = 1 => ~(permPending + reqPending > 0 /\ gumPending > 0)
    /\ Cardinality(fetches) <= 1

\* C7: a call of handleUpload sends exactly one request when there is a
\* recording and none when audioBlob is null (it then only sets 'No recording
\* to upload.' and uploading stays false); no other step sends a request, so
\* a failed request is never sent again without a new call; and the route
\* calls writeBlob at most once for a request.
C7_NoRetry ==
    [][LET new == {i \in DOMAIN reqs' : reqs'[i].origin = "page"} \ PageRequests IN
       /\ (last'.op = "handleUpload" /\ audioBlob # NoBlob)
            => Cardinality(new) = 1 /\ fetches' = fetches \cup new
       /\ (last'.op = "handleUpload" /\ audioBlob = NoBlob)
            => /\ new = {}
               /\ fetches' = fetches
               /\ uploadStatus' = "No recording to upload."
               /\ ~uploading /\ ~uploading'
       /\ last'.op # "handleUpload" => new = {} /\ fetches' \subseteq fetches
       /\ \A i \in DOMAIN reqs' : reqs'[i].writeCalls <= 1]_vars

\* handleUpload was called without a recording after an earlier upload had
\* been sent and written.
C7_Witness ==
    /\ last.op = "handleUpload"
    /\ audioBlob = NoBlob
    /\ uploadStatus = "No recording to upload."
    /\ PageRequests # {}
    /\ fetches = {}

\* C8: a request of the page carries the blob held when Upload was clicked, a
\* blob that the onstop handler of a recorder assembled after that recorder was
\* started and stopped; the route calls writeBlob only after it has read the
\* body; and uploadStatus changes to a result of the upload only in the step
\* in which the answer to that request arrives (for a success: the route's
\* answer after writeBlob returned).
C8_LinearFlow ==
    [][LET new == {i \in DOMAIN reqs' : reqs'[i].origin = "page"} \ PageRequests
           successes == {"Upload successful! Blob ID: " \o id : id \in BlobIds}
           failures ==
               {"Upload failed: " \o e :
                  e \in {"Unknown error"} \cup
                        {"Failed to upload to Walrus: " \o m :
                           m \in {"arrayBuffer failed", "Invalid secret key",
                                  "Failed to write blob"}}}
               \cup {"Error uploading to Walrus: " \o m :
                       m \in {"Failed to fetch", "Unexpected token <"}}
       IN
       /\ \A i \in new :
            /\ reqs'[i].form.bytes = audioBlob
            /\ audioBlob # NoBlob
            /\ audioBlob.by \in DOMAIN recorders
            /\ recorders[audioBlob.by].state = "inactive"
            /\ ~recorders[audioBlob.by].stopQueued
       /\ \A i \in DOMAIN reqs' : reqs'[i].writeCalls > 0 => reqs'[i].bodyRead
       /\ (uploadStatus' # uploadStatus /\ uploadStatus' \in successes \cup failures)
            => \E i \in fetches :
                 /\ i \notin fetches'
                 /\ last'.op = "upload"
                 /\ uploadStatus' \in successes
                      => reqs[i].pc = "responded" /\ reqs[i].wrote = "ok"]_vars

\* The route has written the recording of a stopped recorder and answered; the
\* page has not yet taken the answer.
C8_Witness ==
    \E i \in fetches :
        /\ reqs[i].pc = "responded"
        /\ reqs[i].wrote = "ok"
        /\ reqs[i].form.bytes.by \in DOMAIN recorders
        /\ uploadStatus = "Uploading to Walrus..."

----------------------------------------------------------------------------
(* The page's behaviour *)

\* C11: the page never awaits more than one fetch, and it awaits one exactly
\* while uploading is true: no click on Upload to Walrus starts a second one.
C11_OneUploadInFlight ==
    /\ Cardinality(fetches) <= 1
    /\ uploading <=> (fetches # {})

\* An upload is in flight while a recording is in state, so only the uploading
\* flag keeps the button from sending it again.
C11_Witness ==
    /\ uploading
    /\ audioBlob # NoBlob
    /\ Cardinality(fetches) = 1
    /\ Cardinality(PageRequests) < MaxUploads

\* C12: when getUserMedia rejects, or building or starting the recorder throws,
\* uploadStatus becomes 'Failed to access microphone: <message>' and
\* isRecording, audioBlob, uploading and blobId are unchanged; isRecording
\* stays false.
C12_StartFailureFrame ==
    [][last'.op \in {"getUserMedia", "MediaRecorder"}
         => /\ uploadStatus' = "Failed to access microphone: " \o last'.res.message
            /\ isRecording' = isRecording
            /\ ~isRecording'
            /\ audioBlob' = audioBlob
            /\ uploading' = uploading
            /\ blobId' = blobId]_vars

\* C13: an upload that was started returns uploading to false once its request
\* is settled, whatever the outcome; uploading is never true without a request
\* the page still awaits.
C13_UploadingEnds ==
    /\ uploading ~> ~uploading
    /\ [](uploading => fetches # {})

\* An upload ended in the catch block and uploading is false again.
C13_Witness ==
    /\ last.op = "upload"
    /\ UploadThrew(last.res)
    /\ ~uploading
    /\ fetches = {}

\* C14: a recording in state is set to null only by the success of the request
\* that carried it: a newer blob, assembled while the upload of an earlier one
\* was in flight, is still there after that upload succeeds.
C14_OnlyUploadedBlobCleared ==
    [][(audioBlob # NoBlob /\ audioBlob' = NoBlob)
         => \E i \in fetches :
              /\ i \notin fetches'
              /\ reqs[i].form.bytes = audioBlob]_vars

\* C15: a blob built by onstop consists of the data of its own recorder only.
C15_BlobOfOwnChunks ==
    audioBlob # NoBlob => audioBlob.chunks = <<audioBlob.by>>

\* C16: every recorder that is recording is the one mediaRecorderRef holds, and
\* once the page is idle again (not recording, no getUserMedia pending, no
\* recorder event to deliver) every stream that getUserMedia delivered has had
\* its tracks stopped.
C16_StreamsReleased ==
    /\ \A r \in DOMAIN recorders :
         recorders[r].state = "recording" => r = mediaRecorderRef
    /\ (/\ ~isRecording
        /\ gumPending = 0
        /\ \A r \in DOMAIN recorders : ~recorders[r].stopQueued)
       => \A r \in DOMAIN recorders : ~recorders[r].live

\* C17 as stated: while the toast is shown its type is 'success' exactly when
\* the upload succeeded, and then blobId is the identifier that uploadStatus
\* shows; while uploading no toast is shown and blobId is null.
C17_ToastAgreesWithStatus ==
    /\ showToast =>
         /\ (toastType = "success") <=> (blobId # NullId)
         /\ toastType = "success"
              => uploadStatus = "Upload successful! Blob ID: " \o blobId
    /\ uploading => ~showToast /\ blobId = NullId

\* C17 amended: the step that settles an upload shows the toast, with type
\* 'success' exactly when that upload succeeded and then with blobId the
\* identifier of its answer; while the toast is shown its type is 'success'
\* exactly when blobId is non-null; whenever uploadStatus shows an identifier it
\* is blobId; while uploading no toast is shown and blobId is null.
C17_ToastAgreesWithUpload ==
    /\ last.op = "upload" =>
         /\ showToast
         /\ (toastType = "success") <=>
              (last.res.kind = "response" /\ last.res.json
               /\ last.res.ok /\ last.res.success)
         /\ toastType = "success" => blobId = last.res.blobId
    /\ showToast =>
         /\ (toastType = "success") <=> (blobId \in BlobIds)
         /\ toastType = "error" => blobId = NullId
    /\ uploadStatus \in {"Upload successful! Blob ID: " \o id : id \in BlobIds}
         => uploadStatus = "Upload successful! Blob ID: " \o blobId
    /\ uploading => ~showToast /\ blobId = NullId

\* The success toast is still shown after a new recording has started and
\* cleared uploadStatus.
C17_Witness ==
    /\ showToast
    /\ toastType = "success"
    /\ blobId \in BlobIds
    /\ isRecording
    /\ uploadStatus = ""

----------------------------------------------------------------------------
(* The route's contract (checked under SpecRoute) *)

\* C1: the answer of POST carries a blobId, and success: true, if and only if
\* writeBlob completed without throwing for that request; every other answer
\* carries neither.
C1_BlobIdIffWritten ==
    \A i \in DOMAIN reqs :
        reqs[i].pc = "responded" =>
            /\ (reqs[i].resp.blobId # Absent) <=> (reqs[i].wrote = "ok")
            /\ reqs[i].resp.success <=> (reqs[i].wrote = "ok")
            /\ reqs[i].wrote = "ok" => reqs[i].resp.blobId \in BlobIds

\* One request answered with an identifier after writeBlob returned, another
\* answered without one after writeBlob threw.
C1_Witness ==
    \E i, j \in DOMAIN reqs :
        /\ reqs[i].pc = "responded" /\ reqs[i].wrote = "ok"
        /\ reqs[i].resp.blobId \in BlobIds
        /\ reqs[j].pc = "responded" /\ reqs[j].wrote = "threw"
        /\ reqs[j].resp.blobId = Absent

\* C9: a request without an audio field is answered with status 400 and
\* { error: 'No audio blob provided' }; the storage client is not built and
\* writeBlob is not called for it.
C9_NoAudioRejected ==
    \A i \in DOMAIN reqs :
        reqs[i].form.kind = "noAudio" =>
            /\ ~reqs[i].clientBuilt
            /\ reqs[i].writeCalls = 0
            /\ reqs[i].wrote = "none"
            /\ reqs[i].pc \in {"formData", "responded"}
            /\ reqs[i].pc = "responded" =>
                 /\ reqs[i].resp.status = 400
                 /\ reqs[i].resp.error = "No audio blob provided"
                 /\ reqs[i].resp.blobId = Absent
                 /\ ~reqs[i].resp.success

\* A request without an audio field has been answered.
C9_Witness ==
    \E i \in DOMAIN reqs :
        /\ reqs[i].form.kind = "noAudio"
        /\ reqs[i].pc = "responded"
        /\ reqs[i].resp.status = 400

\* C10: whatever is thrown while POST handles a request, the handler answers
\* once, with status 500 and the error 'Failed to upload to Walrus: ' followed
\* by the exception's message; it does not throw to its caller.
C10_ExceptionsPassedThrough ==
    \A i \in DOMAIN reqs :
        /\ reqs[i].answers <= 1
        /\ reqs[i].thrown # Absent =>
             /\ reqs[i].pc = "responded"
             /\ reqs[i].answers = 1
             /\ reqs[i].resp.status = 500
             /\ reqs[i].resp.error = "Failed to upload to Walrus: " \o reqs[i].thrown
             /\ reqs[i].resp.blobId = Absent
             /\ ~reqs[i].resp.success

\* writeBlob threw for one request and the form of another could not be parsed.
C10_Witness ==
    \E i, j \in DOMAIN reqs :
        /\ reqs[i].thrown = "Failed to write blob"
        /\ reqs[i].resp.status = 500
        /\ reqs[j].thrown = "Failed to parse body as FormData"
        /\ reqs[j].resp.status = 500

====
